---------------------------- MODULE Spec2Model ----------------------------
(***************************************************************************)
(* Model of src/settings.rs of wonky: the Meter and Indicator widgets,     *)
(* their refresh throttling (update), their one-time init, the command     *)
(* construction and output parsing, and the layout arithmetic of the draw  *)
(* handlers.                                                               *)
(*                                                                         *)
(* Strings are sequences of one-character strings.  Time is counted in     *)
(* ticks of 1/TicksPerSec second, so that Duration::as_secs (truncation to *)
(* whole seconds) is something the model computes.                         *)
(***************************************************************************)
EXTENDS Integers, Sequences, FiniteSets, TLC

VARIABLES widget, now, last, calls, updated, failed

vars == <<widget, now, last, calls, updated, failed>>

-----------------------------------------------------------------------------
(* Bounds of the model *)

\* ticks per second of the model clock
TicksPerSec == 2
\* the clock stops at MaxTime ticks
MaxTime == 5
\* configured frequencies are 0 .. MaxFrequency seconds
MaxFrequency == 1

-----------------------------------------------------------------------------
(* Option<T>: None is the empty sequence, Some(v) the one-element one *)

None == << >>
Some(v) == << v >>
IsSome(o) == Len(o) = 1
Unwrap(o) == o[1]

-----------------------------------------------------------------------------
(* Strings *)

\* char::is_whitespace, restricted to the characters of the model
IsWhitespace(c) == c \in {" ", "\t", "\n"}

IsDigit(c) == c \in {"0", "1", "2", "3", "4", "5", "6", "7", "8", "9"}

DigitVal(c) ==
    CASE c = "0" -> 0 [] c = "1" -> 1 [] c = "2" -> 2 [] c = "3" -> 3
      [] c = "4" -> 4 [] c = "5" -> 5 [] c = "6" -> 6 [] c = "7" -> 7
      [] c = "8" -> 8 [] c = "9" -> 9

DigitChar(d) == <<"0", "1", "2", "3", "4", "5", "6", "7", "8", "9">>[d + 1]

RECURSIVE TrimStart(_)
TrimStart(s) ==
    IF s # << >> /\ IsWhitespace(Head(s)) THEN TrimStart(Tail(s)) ELSE s

RECURSIVE TrimEnd(_)
TrimEnd(s) ==
    IF s # << >> /\ IsWhitespace(s[Len(s)])
    THEN TrimEnd(SubSeq(s, 1, Len(s) - 1))
    ELSE s

\* str::trim
Trim(s) == TrimEnd(TrimStart(s))

\* pieces of s between separator characters, empty pieces included;
\* acc is the list of finished pieces, cur the piece being read
RECURSIVE SplitBy(_, _, _, _)
SplitBy(s, seps, acc, cur) ==
    IF s = << >> THEN Append(acc, cur)
    ELSE IF Head(s) \in seps
         THEN SplitBy(Tail(s), seps, Append(acc, cur), << >>)
         ELSE SplitBy(Tail(s), seps, acc, Append(cur, Head(s)))

\* str::split(' '): splits on every single space, keeps empty pieces
Split(s) == SplitBy(s, {" "}, << >>, << >>)

\* str::split_whitespace: the non-empty pieces between whitespace
split_whitespace(s) ==
    SelectSeq(SplitBy(s, {" ", "\t", "\n"}, << >>, << >>),
              LAMBDA p : p # << >>)

\* Iterator<&str>::collect::<String>(): concatenation, no separator
RECURSIVE Concat(_)
Concat(ss) == IF ss = << >> THEN << >> ELSE Head(ss) \o Concat(Tail(ss))

-----------------------------------------------------------------------------
(* Results: Ok(v) or Err *)

Ok(v) == [ok |-> TRUE, v |-> v]
Err == [ok |-> FALSE, v |-> 0]

\* <bool as FromStr>::from_str: exactly "true" or "false"
parse_bool(s) ==
    IF s = <<"t", "r", "u", "e">> THEN Ok(TRUE)
    ELSE IF s = <<"f", "a", "l", "s", "e">> THEN Ok(FALSE)
    ELSE Err

RECURSIVE StripZeros(_)
StripZeros(ds) ==
    IF Len(ds) > 1 /\ Head(ds) = "0" THEN StripZeros(Tail(ds)) ELSE ds

RECURSIVE DecValue(_, _)
DecValue(ds, acc) ==
    IF ds = << >> THEN acc
    ELSE DecValue(Tail(ds), acc * 10 + DigitVal(Head(ds)))

\* the digits of u64::MAX, 18446744073709551615
U64MaxDigits ==
    <<"1", "8", "4", "4", "6", "7", "4", "4", "0", "7",
      "3", "7", "0", "9", "5", "5", "1", "6", "1", "5">>

\* ds > es for digit strings of equal length
RECURSIVE DigitsGreater(_, _)
DigitsGreater(ds, es) ==
    IF ds = << >> THEN FALSE
    ELSE IF DigitVal(Head(ds)) # DigitVal(Head(es))
         THEN DigitVal(Head(ds)) > DigitVal(Head(es))
         ELSE DigitsGreater(Tail(ds), Tail(es))

ExceedsU64(ds) ==
    LET z == StripZeros(ds) IN
    \/ Len(z) > Len(U64MaxDigits)
    \/ Len(z) = Len(U64MaxDigits) /\ DigitsGreater(z, U64MaxDigits)

\* <u64 as FromStr>::from_str: an optional '+', then one or more decimal
\* digits, value at most u64::MAX; anything else is an error
parse_u64(s) ==
    LET ds == IF s # << >> /\ Head(s) = "+" THEN Tail(s) ELSE s IN
    IF ds = << >> THEN Err
    ELSE IF \E i \in 1..Len(ds) : ~IsDigit(ds[i]) THEN Err
    ELSE IF ExceedsU64(ds) THEN Err
    ELSE Ok(DecValue(StripZeros(ds), 0))

\* Display for u64: decimal digits, no padding
RECURSIVE to_string(_)
to_string(n) ==
    IF n < 10 THEN << DigitChar(n) >>
    ELSE to_string(n \div 10) \o << DigitChar(n % 10) >>


-----------------------------------------------------------------------------
(* Command construction and execution *)

\* construct_command splitting on ' ' instead of on whitespace
construct_command_split(command) ==
    LET split == Split(command) IN
    IF split = << >> THEN None
    ELSE Some([program |-> Head(split), args |-> Tail(split)])

\* construct_command: None when the command line has no token, else the
\* program and its arguments
construct_command(command) ==
    LET split == split_whitespace(command) IN
    IF split = << >> THEN None
    ELSE Some([program |-> Head(split), args |-> Tail(split)])

\* what running a process can give: it cannot be spawned or its output is
\* not UTF-8 (spawned = FALSE), or it runs and writes stdout
Spawned(stdout) == [spawned |-> TRUE, stdout |-> stdout]
Failed == [spawned |-> FALSE, stdout |-> << >>]

\* CommandExt::get_stdout: panics ("oops", "berp") when the process fails,
\* else the trimmed output
get_stdout(run) == IF run.spawned THEN Ok(Trim(run.stdout)) ELSE Err

\* Duration::as_millis in the place of as_secs
as_millis(d) == (d * 1000) \div TicksPerSec

\* Duration::as_secs of a duration of d ticks: whole seconds, truncated
as_secs(d) == d \div TicksPerSec

\* the condition of update with >= in the place of >
is_due_ge(timer, frequency, t) ==
    IF IsSome(timer) THEN (t - Unwrap(timer)) \div TicksPerSec >= frequency
    ELSE TRUE

\* the condition of update with unwrap_or(false)
is_due_unwrap_false(timer, frequency, t) ==
    IF IsSome(timer) THEN (t - Unwrap(timer)) \div TicksPerSec > frequency
    ELSE FALSE

\* the condition of update: timer.map(|t| t.elapsed().as_secs() >
\* frequency).unwrap_or(true), evaluated at time t
is_due(timer, frequency, t) ==
    IF IsSome(timer) THEN as_secs(t - Unwrap(timer)) > frequency ELSE TRUE

-----------------------------------------------------------------------------
(* The outcome of a call: the widget after it, how it returned ("Ok",      *)
(* "Err" for a propagated parse error, "Panic" for an aborted process),    *)
(* whether a process was run, and the draw calls made on the viewport      *)

Outcome(w, result, invoked) ==
    [w |-> w, result |-> result, invoked |-> invoked, draws |-> << >>,
     wrapped |-> FALSE]

\* Meter::update at time t, the process (if run) behaving as run
Meter_update_at(w, t, run) ==
    IF is_due(w.timer, w.frequency, t)
    THEN LET w1 == [w EXCEPT !.timer = Some(t)]
             cmd == construct_command(w.value_command)
         IN  IF IsSome(cmd)
             THEN LET out == get_stdout(run) IN
                  IF ~out.ok THEN Outcome(w1, "Panic", TRUE)
                  ELSE LET r == parse_u64(out.v) IN
                       IF r.ok
                       THEN Outcome([w1 EXCEPT !.current_value = r.v],
                                    "Ok", TRUE)
                       ELSE Outcome(w1, "Err", TRUE)
             ELSE Outcome(w1, "Ok", FALSE)
    ELSE Outcome(w, "Ok", FALSE)

\* Meter::init
Meter_init_at(w, run) ==
    LET cmd == construct_command(w.max_command) IN
    IF IsSome(cmd)
    THEN LET out == get_stdout(run) IN
         IF ~out.ok THEN Outcome(w, "Panic", TRUE)
         ELSE LET r == parse_u64(out.v) IN
              IF r.ok
              THEN Outcome([w EXCEPT !.max_value = r.v], "Ok", TRUE)
              ELSE Outcome(w, "Err", TRUE)
    ELSE Outcome(w, "Ok", FALSE)

\* Indicator::update at time t
Indicator_update_at(w, t, run) ==
    IF is_due(w.timer, w.frequency, t)
    THEN LET w1 == [w EXCEPT !.timer = Some(t)]
             cmd == construct_command(w.command)
         IN  IF IsSome(cmd)
             THEN LET out == get_stdout(run) IN
                  IF ~out.ok THEN Outcome(w1, "Panic", TRUE)
                  ELSE LET r == parse_bool(out.v) IN
                       IF r.ok
                       THEN Outcome([w1 EXCEPT !.value = r.v], "Ok", TRUE)
                       ELSE Outcome(w1, "Err", TRUE)
             ELSE Outcome(w1, "Ok", FALSE)
    ELSE Outcome(w, "Ok", FALSE)

\* Indicator::init parsing the whole output, as update does
Indicator_init_whole(w, run) ==
    LET cmd == construct_command(w.command) IN
    IF IsSome(cmd)
    THEN LET out == get_stdout(run) IN
         IF ~out.ok THEN Outcome(w, "Panic", TRUE)
         ELSE LET r == parse_bool(out.v) IN
              IF r.ok
              THEN Outcome([w EXCEPT !.value = r.v, !.reading = << >>],
                           "Ok", TRUE)
              ELSE Outcome(w, "Err", TRUE)
    ELSE Outcome(w, "Ok", FALSE)

\* Indicator::init: the first piece of the output split on ' ' is the
\* value, the other pieces concatenated are the reading
Indicator_init_at(w, run) ==
    LET cmd == construct_command(w.command) IN
    IF IsSome(cmd)
    THEN LET out == get_stdout(run) IN
         IF ~out.ok THEN Outcome(w, "Panic", TRUE)
         ELSE LET split == Split(out.v)
                  r == parse_bool(Head(split))
              IN  IF r.ok
                  THEN Outcome([w EXCEPT !.value = r.v,
                                         !.reading = Concat(Tail(split))],
                               "Ok", TRUE)
                  ELSE Outcome(w, "Err", TRUE)
    ELSE Outcome(w, "Ok", FALSE)

-----------------------------------------------------------------------------
(* Drawing.  Screen coordinates and the viewport width are u16.  An        *)
(* arithmetic overflow panics in a build with overflow checks and wraps    *)
(* modulo 2^16 in a build without them; checks says which build runs.      *)

U16Modulus == 65536

\* a - b and a + b on u16: the wrapped value, and whether it overflowed
sub_u16(a, b) == [v |-> (a - b) % U16Modulus, overflow |-> a < b]
add_u16(a, b) == [v |-> (a + b) % U16Modulus, overflow |-> a + b >= U16Modulus]

\* u16::saturating_sub
saturating_sub(a, b) == IF a < b THEN 0 ELSE a - b

\* fg_color() and bg_color()
fg_color == "Green"
bg_color == "DarkGreen"

\* one viewport.draw_widget (or theme.draw) call
Draw(what, len, x, y, fg, bg) ==
    [what |-> what, len |-> len, x |-> x, y |-> y, fg |-> fg, bg |-> bg]

\* format!("{}/{}{}", current_value, max_value, unit)
value_reading(w) ==
    to_string(w.current_value) \o <<"/">> \o to_string(w.max_value) \o w.unit

\* the column of the reading: pos.x + (width / 2 - 2 - len as u16)
reading_column(x, width, len) ==
    LET a == sub_u16(width \div 2, 2)
        b == sub_u16(a.v, len % U16Modulus)
        c == add_u16(x, b.v)
    IN  [v |-> c.v, overflow |-> a.overflow \/ b.overflow \/ c.overflow]

\* the width of the Indicator's block: width / 2 - 2
block_width(width) == sub_u16(width \div 2, 2)

\* Meter::update_and_draw on a viewport of the given width at pos (x, y)
Meter_update_and_draw_at(w, t, run, width, x, y, checks) ==
    LET u == Meter_update_at(w, t, run) IN
    IF u.result # "Ok" THEN u
    ELSE
    LET m == u.w
        d1 == << Draw("title", Len(m.title), x, y, fg_color, "None") >>
        text == value_reading(m)
        col == reading_column(x, width, Len(text))
        d2 == IF m.reading
              THEN << Draw("reading", Len(text), col.v, saturating_sub(y, 1),
                           fg_color, "None") >>
              ELSE << >>
        d3 == IF m.title # << >>
              THEN << Draw("title", Len(m.title), x, saturating_sub(y, 1),
                           fg_color, "None") >>
              ELSE << >>
        d4 == << Draw("theme", 0, x, y, "None", "None") >>
    IN  IF m.reading /\ col.overflow /\ checks
        THEN [u EXCEPT !.result = "Panic", !.draws = d1, !.wrapped = TRUE]
        ELSE [u EXCEPT !.draws = d1 \o d2 \o d3 \o d4,
                       !.wrapped = m.reading /\ col.overflow]

\* Indicator::draw_and_update
Indicator_draw_and_update_at(w, t, run, width, x, y, checks) ==
    LET u == Indicator_update_at(w, t, run) IN
    IF u.result # "Ok" THEN u
    ELSE
    LET i == u.w
        colors == IF i.value THEN <<"Black", fg_color>>
                             ELSE <<"Black", bg_color>>
        bw == block_width(width)
        d1 == << Draw("block", bw.v, x, y, "None", colors[2]) >>
        d2 == IF IsSome(i.title)
              THEN << Draw("title", Len(Unwrap(i.title)), x, y,
                           colors[1], colors[2]) >>
              ELSE << >>
    IN  IF bw.overflow /\ checks
        THEN [u EXCEPT !.result = "Panic", !.wrapped = TRUE]
        ELSE [u EXCEPT !.draws = d1 \o d2, !.wrapped = bw.overflow]

-----------------------------------------------------------------------------
(* Configurations and inputs of the model *)

Str_RAM == <<"R", "A", "M">>
Str_mib == <<"m", "i", "b">>

\* command lines: empty, whitespace only, and one with a program and an
\* argument
Commands == { << >>, <<" ", "\t">>, <<"c", "a", "t", " ", "f">> }

\* what the processes of a Meter write
MeterOutputs ==
    { <<"5", "1", "2", "\n">>,
      <<"7", " ", "m", "b">>,
      << >>,
      <<"1", "8", "4", "4", "6", "7", "4", "4", "0", "7",
        "3", "7", "0", "9", "5", "5", "1", "6", "1", "6">> }

\* what the process of an Indicator writes
Out_true == <<"t", "r", "u", "e", "\n">>
Out_false == <<"f", "a", "l", "s", "e">>
Out_true_charging ==
    <<"t", "r", "u", "e", " ", "c", "h", "a", "r", "g", "i", "n", "g", "\n">>
Out_1_charging == <<"1", " ", "c", "h", "a", "r", "g", "i", "n", "g">>
Out_0 == <<"0">>
Str_charging == <<"c", "h", "a", "r", "g", "i", "n", "g">>

IndicatorOutputs ==
    { Out_true, Out_false, Out_true_charging, Out_1_charging, Out_0 }

Outputs(w) == IF w.type = "Meter" THEN MeterOutputs ELSE IndicatorOutputs

\* the ways a process run for widget w can end
Runs(w) == { Spawned(o) : o \in Outputs(w) } \cup { Failed }

Frequencies == 0..MaxFrequency

\* viewport widths and anchor positions the draw handlers are called with
Widths == {2, 20, 80}
Columns == {3}
Rows == {0, 2}

\* a Meter as deserialized: the skipped fields take their defaults
Meters ==
    { [type |-> "Meter", title |-> ti, unit |-> Str_mib,
       max_command |-> mc, value_command |-> vc, frequency |-> f,
       reading |-> rd, max_value |-> 0, current_value |-> 0, timer |-> None] :
      ti \in {Str_RAM}, mc \in Commands, vc \in Commands,
      f \in Frequencies, rd \in BOOLEAN }

\* an Indicator as deserialized
Indicators ==
    { [type |-> "Indicator", title |-> ti, command |-> c, frequency |-> f,
       value |-> FALSE, reading |-> << >>, timer |-> None] :
      ti \in {None, Some(Str_RAM)}, c \in Commands, f \in Frequencies }

-----------------------------------------------------------------------------
(* The state machine: one widget, the clock, and a record of the calls:    *)
(* the last one (last), the process runs (calls), whether some update has   *)
(* returned Ok (updated) and whether some call has not (failed)            *)

\* ticks between the instant in option o and now, None when o is None
Since(o) == IF IsSome(o) THEN Some(now - Unwrap(o)) ELSE None

\* the record of the call made last at the current instant: its name,
\* (for draw) the viewport width and anchor, the ticks elapsed since the
\* timer and whether the widget was left as it was, its outcome, and when
\* it ran a process the ticks since the previous process run for the
\* widget (gap, the run before being made by a call of kind prev) and
\* since the previous one made by update (ugap)
Call(op, args, before, run, o) ==
    [op |-> op, args |-> args, elapsed |-> Since(before.timer),
     unchanged |-> (o.w = before),
     run |-> IF o.invoked THEN Some(run) ELSE None,
     result |-> o.result, invoked |-> o.invoked, draws |-> o.draws,
     wrapped |-> o.wrapped,
     gap |-> IF o.invoked THEN Since(calls.any) ELSE None,
     prev |-> IF o.invoked THEN calls.by ELSE "none",
     ugap |-> IF o.invoked THEN Since(calls.update) ELSE None]

NoCall ==
    [op |-> "new", args |-> << >>, elapsed |-> None, unchanged |-> TRUE,
     run |-> None, result |-> "Ok", invoked |-> FALSE, draws |-> << >>,
     wrapped |-> FALSE, gap |-> None, prev |-> "none", ugap |-> None]

\* when the last process was run for the widget and by which kind of call
\* (any, by), and when the last one was run by update (update)
Logged(by, o) ==
    IF o.invoked
    THEN [any |-> Some(now), by |-> by,
          update |-> IF by = "update" THEN Some(now) ELSE calls.update]
    ELSE calls

\* the process has not been aborted by a panic
Running == last.result # "Panic"

Init ==
    /\ widget \in Meters \cup Indicators
    /\ now = 0
    /\ last = NoCall
    /\ calls = [any |-> None, by |-> "none", update |-> None]
    /\ updated = FALSE
    /\ failed = FALSE

\* time passes
Tick ==
    /\ Running
    /\ now < MaxTime
    /\ now' = now + 1
    /\ last' = NoCall
    /\ UNCHANGED <<widget, calls, updated, failed>>

Step(op, by, args, run, o) ==
    /\ widget' = o.w
    /\ last' = Call(op, args, widget, run, o)
    /\ calls' = Logged(by, o)
    /\ updated' = (updated \/ (by = "update" /\ o.result = "Ok"))
    /\ failed' = (failed \/ o.result # "Ok")
    /\ UNCHANGED now

Meter_init ==
    /\ Running
    /\ widget.type = "Meter"
    /\ \E run \in Runs(widget) :
         Step("init", "init", << >>, run, Meter_init_at(widget, run))

Meter_update ==
    /\ Running
    /\ widget.type = "Meter"
    /\ \E run \in Runs(widget) :
         Step("update", "update", << >>, run,
              Meter_update_at(widget, now, run))

Meter_update_and_draw ==
    /\ Running
    /\ widget.type = "Meter"
    /\ \E run \in Runs(widget), width \in Widths, x \in Columns, y \in Rows,
          checks \in BOOLEAN :
         Step("draw", "update", <<width, x, y>>, run,
              Meter_update_and_draw_at(widget, now, run, width, x, y, checks))

Indicator_init ==
    /\ Running
    /\ widget.type = "Indicator"
    /\ \E run \in Runs(widget) :
         Step("init", "init", << >>, run, Indicator_init_at(widget, run))

Indicator_update ==
    /\ Running
    /\ widget.type = "Indicator"
    /\ \E run \in Runs(widget) :
         Step("update", "update", << >>, run,
              Indicator_update_at(widget, now, run))

Indicator_draw_and_update ==
    /\ Running
    /\ widget.type = "Indicator"
    /\ \E run \in Runs(widget), width \in Widths, x \in Columns, y \in Rows,
          checks \in BOOLEAN :
         Step("draw", "update", <<width, x, y>>, run,
              Indicator_draw_and_update_at(widget, now, run, width, x, y,
                                           checks))

Next ==
    \/ Tick
    \/ Meter_init
    \/ Meter_update
    \/ Meter_update_and_draw
    \/ Indicator_init
    \/ Indicator_update
    \/ Indicator_draw_and_update

Spec == Init /\ [][Next]_vars

-----------------------------------------------------------------------------
(* Vocabulary of the properties *)

\* the command line update runs
UpdateCommand(w) == IF w.type = "Meter" THEN w.value_command ELSE w.command

\* the command line init runs
InitCommand(w) == IF w.type = "Meter" THEN w.max_command ELSE w.command

\* a command line that is neither empty nor whitespace only
NonEmpty(c) == \E i \in 1..Len(c) : ~IsWhitespace(c[i])

\* the last call ran update: update itself, or a draw handler, which
\* starts by calling it
UpdateCalled == last.op \in {"update", "draw"}

\* the configured interval, in ticks
IntervalTicks == widget.frequency * TicksPerSec

\* the last call was made e ticks after the recorded timestamp
ElapsedIs(e) == IsSome(last.elapsed) /\ Unwrap(last.elapsed) = e

-----------------------------------------------------------------------------
(* C1: scheduler boundary *)

\* C1 as claimed: an update() made exactly N seconds after the recorded
\* timestamp runs no command and changes nothing, and one made N+1 seconds
\* after it runs the command and sets the timestamp to the current time.
C1_Original ==
    last.op = "update" =>
      /\ ElapsedIs(IntervalTicks) => ~last.invoked /\ last.unchanged
      /\ ElapsedIs(IntervalTicks + TicksPerSec) =>
           last.invoked /\ widget.timer = Some(now)

\* C1 amended: as claimed, except that at N+1 seconds the command is run
\* exactly when the command line is non-empty; the timestamp is set to the
\* current time either way.
C1_Amended ==
    last.op = "update" =>
      /\ ElapsedIs(IntervalTicks) => ~last.invoked /\ last.unchanged
      /\ ElapsedIs(IntervalTicks + TicksPerSec) =>
           /\ widget.timer = Some(now)
           /\ last.invoked <=> NonEmpty(UpdateCommand(widget))

\* an update() of a widget with a one-second interval and a command, made
\* two seconds after the timestamp, has run the command
C1_Witness ==
    /\ last.op = "update"
    /\ widget.frequency = 1
    /\ ElapsedIs(IntervalTicks + TicksPerSec)
    /\ last.invoked
    /\ widget.timer = Some(now)

-----------------------------------------------------------------------------
(* C2: first update *)

\* C2: an update() of a widget that has no recorded timestamp and a
\* non-empty command runs the command, whatever the interval and whether or
\* not init was called before.
C2_FirstUpdate ==
    (UpdateCalled /\ last.elapsed = None /\ NonEmpty(UpdateCommand(widget)))
        => last.invoked

\* the first update() of a widget with the largest interval, made right
\* after an init that ran its command, has run the command
C2_Witness ==
    /\ last.op = "update"
    /\ last.elapsed = None
    /\ widget.frequency = MaxFrequency
    /\ last.prev = "init"
    /\ last.invoked

-----------------------------------------------------------------------------
(* C3: the timestamp and successful updates *)

\* C3 as claimed: while the process runs, a timestamp is recorded only if
\* some update() has returned Ok.
C3_Claim == (Running /\ IsSome(widget.timer)) => updated

-----------------------------------------------------------------------------
(* C4: interval 0 *)

\* C4 as claimed: with interval 0 and a non-empty command, every update()
\* made with no timestamp or a nonzero time after it runs the command
\* (stated of the runs in which every call so far has returned Ok).
C4_Claim ==
    (/\ UpdateCalled
     /\ ~failed
     /\ widget.frequency = 0
     /\ NonEmpty(UpdateCommand(widget))
     /\ (IsSome(last.elapsed) => Unwrap(last.elapsed) > 0))
        => last.invoked

-----------------------------------------------------------------------------
(* C5: Indicator init parse *)

\* the last call was an Indicator init whose process wrote out
InitRead(out) ==
    /\ widget.type = "Indicator"
    /\ last.op = "init"
    /\ last.run = Some(Spawned(out))

\* C5 as claimed: init on "1 charging" returns Ok with value true and
\* reading "charging"; on "0" it returns Ok with value false and an empty
\* reading.
C5_Original ==
    /\ InitRead(Out_1_charging) =>
         /\ last.result = "Ok"
         /\ widget.value = TRUE
         /\ widget.reading = Str_charging
    /\ InitRead(Out_0) =>
         /\ last.result = "Ok"
         /\ widget.value = FALSE
         /\ widget.reading = << >>

\* C5 amended: the claim holds of the literals true and false: init on
\* "true charging" returns Ok with value true and reading "charging", on
\* "false" it returns Ok with value false and an empty reading; on
\* "1 charging" and on "0" it returns a parse error.
C5_Amended ==
    /\ InitRead(Out_true_charging) =>
         /\ last.result = "Ok"
         /\ widget.value = TRUE
         /\ widget.reading = Str_charging
    /\ InitRead(Out_false) =>
         /\ last.result = "Ok"
         /\ widget.value = FALSE
         /\ widget.reading = << >>
    /\ (InitRead(Out_1_charging) \/ InitRead(Out_0)) => last.result = "Err"

\* an init has read "true charging" and stored true and "charging"
C5_Witness ==
    /\ InitRead(Out_true_charging)
    /\ widget.value = TRUE
    /\ widget.reading = Str_charging

-----------------------------------------------------------------------------
(* C6: empty command *)

\* C6: a widget whose update command is empty or whitespace only never
\* runs a process in update and keeps its value (Meter current value 0,
\* Indicator false); one whose init command is so never runs a process in
\* init and keeps what init sets (Meter maximum 0, Indicator false and an
\* empty reading); with both so, no process is ever run; and init and
\* update then return Ok.
C6_EmptyCommandSkip ==
    /\ ~NonEmpty(UpdateCommand(widget)) =>
         /\ UpdateCalled => ~last.invoked
         /\ last.op = "update" => last.result = "Ok"
         /\ calls.update = None
         /\ widget.type = "Meter" => widget.current_value = 0
    /\ ~NonEmpty(InitCommand(widget)) =>
         /\ last.op = "init" => ~last.invoked /\ last.result = "Ok"
         /\ widget.type = "Meter" => widget.max_value = 0
         /\ widget.type = "Indicator" => widget.reading = << >>
    /\ (~NonEmpty(UpdateCommand(widget)) /\ ~NonEmpty(InitCommand(widget))) =>
         /\ calls.any = None
         /\ widget.type = "Indicator" => widget.value = FALSE

\* a Meter whose two commands are whitespace only has been initialized and
\* then updated: the update set the timestamp and ran nothing
C6_Witness ==
    /\ widget.type = "Meter"
    /\ widget.value_command # << >> /\ ~NonEmpty(widget.value_command)
    /\ widget.max_command # << >> /\ ~NonEmpty(widget.max_command)
    /\ last.op = "update"
    /\ IsSome(widget.timer)
    /\ ~last.invoked
    /\ widget.current_value = 0

-----------------------------------------------------------------------------
(* C7, C8: layout arithmetic *)

\* the last call was a draw handler that got past its update
Drew == last.op = "draw" /\ (last.result = "Ok" \/ last.wrapped)

\* C7 as claimed: a Meter with show-reading enabled, drawn at (x, y) in a
\* viewport of width W, draws its reading of length L at column
\* x + (W / 2 - 2 - L) and row max(y - 1, 0).
C7_Claim ==
    (Drew /\ widget.type = "Meter" /\ widget.reading) =>
      LET W == last.args[1]
          x == last.args[2]
          y == last.args[3]
          L == Len(value_reading(widget))
      IN  \E i \in 1..Len(last.draws) :
            /\ last.draws[i].what = "reading"
            /\ last.draws[i].len = L
            /\ last.draws[i].x = x + ((W \div 2) - 2 - L)
            /\ last.draws[i].y = (IF y - 1 > 0 THEN y - 1 ELSE 0)

\* C8 as claimed: no draw underflows (panics or wraps) in its column or
\* width computation.
C8_Claim == last.op = "draw" => ~last.wrapped

-----------------------------------------------------------------------------
(* C9: update and init parse alike *)

\* C9 as claimed: an Indicator update that runs its command accepts the
\* output exactly when init accepts it, and then stores the value init
\* would store.
C9_Claim ==
    (/\ widget.type = "Indicator"
     /\ UpdateCalled
     /\ last.invoked
     /\ last.result # "Panic")
        => LET i == Indicator_init_at(widget, Unwrap(last.run)) IN
           /\ (last.result = "Ok") <=> (i.result = "Ok")
           /\ last.result = "Ok" => widget.value = i.w.value

-----------------------------------------------------------------------------
(* C10: spacing of the process runs *)

\* C10 as claimed: any two successive process runs of a widget, by init or
\* by update, are at least N seconds apart (stated of the runs in which
\* every call has returned Ok).
C10_Original ==
    (~failed /\ last.invoked /\ IsSome(last.gap))
        => Unwrap(last.gap) >= IntervalTicks

\* C10 amended: any two successive process runs made by update() are at
\* least N seconds apart; the runs made by init are not throttled and do
\* not delay the first update.
C10_Amended ==
    (last.invoked /\ UpdateCalled /\ IsSome(last.ugap))
        => Unwrap(last.ugap) >= IntervalTicks

\* an update of a widget with a one-second interval has run the command
\* for the second time
C10_Witness ==
    /\ last.op = "update"
    /\ last.invoked
    /\ IsSome(last.ugap)
    /\ widget.frequency = 1

=============================================================================
